---------------------------- MODULE Spec2Model ----------------------------
(***************************************************************************)
(* Model of the shipment tracking view, frontend/src/ShipmentMap.js:       *)
(* the response reader safeJson, the polling effect of ShipmentMap with    *)
(* its three fetch handlers, and the render guards that choose the view.   *)
(***************************************************************************)
EXTENDS Integers, Sequences, FiniteSets, TLC

(***************************************************************************)
(* Bounds of the model.                                                    *)
(***************************************************************************)
MaxCycles == 2
MaxPending == 0
MaxPositionCycles == 3
MaxCoord == 1
MaxRouteLen == 2
MaxOverflow == 1

Min(a, b) == IF a < b THEN a ELSE b

(***************************************************************************)
(* JavaScript values.  Every value is a record tagged with its typeof      *)
(* class; numbers are integers, NaN or Infinity.                           *)
(***************************************************************************)
Undef == [t |-> "undefined"]
Null == [t |-> "null"]
Num(n) == [t |-> "number", k |-> "finite", v |-> n]
NaN == [t |-> "number", k |-> "NaN"]
Infinity == [t |-> "number", k |-> "Infinity"]
Str(s) == [t |-> "string", s |-> s]
Obj(f) == [t |-> "object", f |-> f]
Arr(a) == [t |-> "array", a |-> a]

\* typeof x
TypeOf(x) == IF x.t \in {"null", "array"} THEN "object" ELSE x.t
\* Number.isFinite(x)
IsFinite(x) == x.t = "number" /\ x.k = "finite"
\* Array.isArray(x)
IsArray(x) == x.t = "array"
\* the truthiness of x in a condition
Truthy(x) ==
  CASE x.t \in {"undefined", "null"} -> FALSE
    [] x.t = "number" -> x.k = "Infinity" \/ (x.k = "finite" /\ x.v # 0)
    [] x.t = "string" -> x.s # ""
    [] OTHER -> TRUE
\* x.name on a value that is neither null nor undefined
Get(x, name) ==
  IF x.t = "object" /\ name \in DOMAIN x.f THEN x.f[name] ELSE Undef
\* x[i] (0-based) on an array
At(x, i) == IF i + 1 \in 1..Len(x.a) THEN x.a[i + 1] ELSE Undef
\* a || b
OrElse(a, b) == IF Truthy(a) THEN a ELSE b

(***************************************************************************)
(* Strings.                                                                *)
(***************************************************************************)
RECURSIVE IncludesFrom(_, _, _)
IncludesFrom(s, sub, i) ==
  IF i + Len(sub) - 1 > Len(s) THEN FALSE
  ELSE IF SubSeq(s, i, i + Len(sub) - 1) = sub THEN TRUE
  ELSE IncludesFrom(s, sub, i + 1)
\* s.includes(sub)
Includes(s, sub) == IncludesFrom(s, sub, 1)
\* s.slice(0, n)
Slice0(s, n) == SubSeq(s, 1, Min(n, Len(s)))

Digits == <<"0", "1", "2", "3", "4", "5", "6", "7", "8", "9">>
IsDigit(c) == \E d \in 1..10 : Digits[d] = c
DigitVal(c) == (CHOOSE d \in 1..10 : Digits[d] = c) - 1
RECURSIVE DigitPrefix(_, _, _, _)
\* the value of the longest run of digits of s starting at i, given the
\* value acc of the n digits already read; <<value, digits read>>
DigitPrefix(s, i, acc, n) ==
  IF i <= Len(s) /\ IsDigit(SubSeq(s, i, i))
  THEN DigitPrefix(s, i + 1, 10 * acc + DigitVal(SubSeq(s, i, i)), n + 1)
  ELSE <<acc, n>>
\* s with its leading blanks removed
RECURSIVE TrimStart(_)
TrimStart(s) ==
  IF Len(s) >= 1 /\ SubSeq(s, 1, 1) = " "
  THEN TrimStart(SubSeq(s, 2, Len(s))) ELSE s
\* s.startsWith(p)
StartsWith(s, p) == Len(s) >= Len(p) /\ SubSeq(s, 1, Len(p)) = p
\* parseFloat(str), on strings whose numeric prefix is an integer or
\* Infinity (the sign of an infinite result is not kept)
parseFloat(str) ==
  LET s == TrimStart(str)
      neg == StartsWith(s, "-")
      pos == StartsWith(s, "+")
      body == IF neg \/ pos THEN SubSeq(s, 2, Len(s)) ELSE s
      r == DigitPrefix(body, 1, 0, 0)
  IN IF StartsWith(body, "Infinity") THEN Infinity
     ELSE IF r[2] = 0 THEN NaN
     ELSE Num(IF neg THEN 0 - r[1] ELSE r[1])

\* the decimal text of the integer n, as JSON and String(n) write it
RECURSIVE NatStr(_)
NatStr(n) ==
  IF n < 10 THEN Digits[n + 1] ELSE NatStr(n \div 10) \o Digits[(n % 10) + 1]
NumStr(v) == IF v < 0 THEN "-" \o NatStr(0 - v) ELSE NatStr(v)

(***************************************************************************)
(* Response reader.  A settled fetch either rejected (transport failure)   *)
(* or produced a response: a status, a content-type header ("" when        *)
(* absent), the body text and the value the body parses to.                *)
(***************************************************************************)
Rejected(m) == [rejected |-> TRUE, message |-> m]
Response(st, ct, text, json) ==
  [rejected |-> FALSE, status |-> st, ct |-> ct, text |-> text, json |-> json]
\* response.ok
Ok(response) == response.status \in 200..299

Return(v) == [thrown |-> FALSE, value |-> v]
Throw(m) == [thrown |-> TRUE, message |-> m]

SliceLimit == 200

safeJson_no404(response, defaultValue) ==
  IF ~Ok(response)
  THEN Throw(IF response.text # "" THEN response.text
             ELSE "Network response was not ok")
  ELSE LET ct == response.ct
       IN IF ~Includes(ct, "application/json")
          THEN Throw("Expected JSON but got: " \o Slice0(response.text, SliceLimit))
          ELSE Return(response.json)

safeJson(response, defaultValue) ==
  IF response.status = 404 THEN Return(defaultValue)
  ELSE IF ~Ok(response)
  THEN Throw(IF response.text # "" THEN response.text
             ELSE "Network response was not ok")
  ELSE LET ct == response.ct
       IN IF ~Includes(ct, "application/json")
          THEN Throw("Expected JSON but got: " \o Slice0(response.text, SliceLimit))
          ELSE Return(response.json)

fetchJson_parsesAnyOk(outcome, defaultValue) ==
  IF outcome.rejected THEN Throw(outcome.message)
  ELSE IF outcome.status = 404 THEN Return(defaultValue)
  ELSE IF ~Ok(outcome)
  THEN Throw(IF outcome.text # "" THEN outcome.text
             ELSE "Network response was not ok")
  ELSE Return(outcome.json)

\* await fetch(url) followed by await safeJson(res, defaultValue): a rejected
\* fetch throws its error into the caller's try block
fetchJson(outcome, defaultValue) ==
  IF outcome.rejected THEN Throw(outcome.message)
  ELSE safeJson(outcome, defaultValue)

(***************************************************************************)
(* Route geometry handling of fetchSimRoute and fetchOptRoute.             *)
(***************************************************************************)
EmptyGeometry == Obj([geometry |-> Arr(<< >>)])

\* json && json.geometry ? json.geometry : []
geometryOf(json) ==
  IF Truthy(json) /\ Truthy(Get(json, "geometry"))
  THEN Get(json, "geometry") ELSE Arr(<< >>)

Nullish(p) == p.t \in {"null", "undefined"}

\* the route value fetchSimRoute stores for a parsed payload; a TypeError
\* raised while mapping is caught by the handler's catch block
simRouteOf_noSwap(json) ==
  LET geometry == geometryOf(json)
  IN IF ~IsArray(geometry) THEN Throw("geometry.map is not a function")
     ELSE IF \E i \in 1..Len(geometry.a) : Nullish(geometry.a[i])
     THEN Throw("Cannot read properties of null")
     ELSE Return([i \in 1..Len(geometry.a) |->
                   LET p == geometry.a[i]
                   IN IF IsArray(p) THEN <<At(p, 0), At(p, 1)>>
                      ELSE <<Get(p, "lat"), Get(p, "lng")>>])

simRouteOf(json) ==
  LET geometry == geometryOf(json)
  IN IF ~IsArray(geometry) THEN Throw("geometry.map is not a function")
     ELSE IF \E i \in 1..Len(geometry.a) : Nullish(geometry.a[i])
     THEN Throw("Cannot read properties of null")
     ELSE Return([i \in 1..Len(geometry.a) |->
                   LET p == geometry.a[i]
                   IN IF IsArray(p) THEN <<At(p, 1), At(p, 0)>>
                      ELSE <<Get(p, "lat"), Get(p, "lng")>>])

\* p can be destructured as [lon, lat]: arrays and strings are iterable
Iterable(p) == p.t \in {"array", "string"}
\* the k-th (0-based) item that iterating p yields
Item(p, k) ==
  IF IsArray(p) THEN At(p, k)
  ELSE IF k + 1 <= Len(p.s) THEN Str(SubSeq(p.s, k + 1, k + 1)) ELSE Undef
\* ([lon, lat]) => [lat, lon]
swapPair(p) == <<Item(p, 1), Item(p, 0)>>

\* the route value fetchOptRoute stores for a parsed payload
optRouteOf(json) ==
  LET geometry == geometryOf(json)
  IN IF ~IsArray(geometry) \/ Len(geometry.a) = 0 THEN Return(<< >>)
     ELSE IF IsArray(geometry.a[1])
     THEN IF \E i \in 1..Len(geometry.a) : ~Iterable(geometry.a[i])
          THEN Throw("element is not iterable")
          ELSE Return([i \in 1..Len(geometry.a) |-> swapPair(geometry.a[i])])
     ELSE IF Nullish(geometry.a[1])
     THEN Throw("Cannot read properties of null")
     ELSE IF TypeOf(Get(geometry.a[1], "lat")) = "number"
     THEN IF \E i \in 1..Len(geometry.a) : Nullish(geometry.a[i])
          THEN Throw("Cannot read properties of null")
          ELSE Return([i \in 1..Len(geometry.a) |->
                        <<Get(geometry.a[i], "lat"), Get(geometry.a[i], "lng")>>])
     ELSE Return(<< >>)

(***************************************************************************)
(* Render: coordinate resolution and the guards that choose the view.      *)
(***************************************************************************)
CurrentLatitude(td) ==
  IF TypeOf(Get(td, "CurrentLatitude")) = "number" THEN Get(td, "CurrentLatitude")
  ELSE IF TypeOf(Get(td, "CurrentLat")) = "number" THEN Get(td, "CurrentLat")
  ELSE IF TypeOf(Get(td, "latitude")) = "number" THEN Get(td, "latitude")
  ELSE IF TypeOf(Get(td, "Latitude")) = "number" THEN Get(td, "Latitude")
  ELSE IF TypeOf(Get(td, "CurrentLatitude")) = "string"
          /\ Truthy(Get(td, "CurrentLatitude"))
  THEN parseFloat(Get(td, "CurrentLatitude").s)
  ELSE NaN

CurrentLongitude(td) ==
  IF TypeOf(Get(td, "CurrentLongitude")) = "number" THEN Get(td, "CurrentLongitude")
  ELSE IF TypeOf(Get(td, "CurrentLng")) = "number" THEN Get(td, "CurrentLng")
  ELSE IF TypeOf(Get(td, "longitude")) = "number" THEN Get(td, "longitude")
  ELSE IF TypeOf(Get(td, "Longitude")) = "number" THEN Get(td, "Longitude")
  ELSE IF TypeOf(Get(td, "CurrentLongitude")) = "string"
          /\ Truthy(Get(td, "CurrentLongitude"))
  THEN parseFloat(Get(td, "CurrentLongitude").s)
  ELSE NaN

markerPosition(td) == <<CurrentLatitude(td), CurrentLongitude(td)>>

Render_noFiniteCheck(ld, err, td) ==
  IF ld THEN "loading"
  ELSE IF Truthy(err) THEN "error"
  ELSE IF ~Truthy(td) THEN "nodata"
  ELSE IF TypeOf(CurrentLatitude(td)) # "number"
          \/ TypeOf(CurrentLongitude(td)) # "number"
  THEN "invalid"
  ELSE "map"

\* the element ShipmentMap returns for a state
Render(ld, err, td) ==
  IF ld THEN "loading"
  ELSE IF Truthy(err) THEN "error"
  ELSE IF ~Truthy(td) THEN "nodata"
  ELSE IF TypeOf(CurrentLatitude(td)) # "number"
          \/ TypeOf(CurrentLongitude(td)) # "number"
          \/ ~IsFinite(CurrentLatitude(td))
          \/ ~IsFinite(CurrentLongitude(td))
  THEN "invalid"
  ELSE "map"

(***************************************************************************)
(* What the backend may answer.                                            *)
(***************************************************************************)
Subjects == {"A", "B"}
JsonType == "application/json; charset=utf-8"

PosPrimary == Obj([CurrentLatitude |-> Num(40), CurrentLongitude |-> Num(-74)])
PosAlias == Obj([CurrentLat |-> Num(41), CurrentLng |-> Num(-73),
                 current_state |-> Str("in_transit")])
PosNoCoords == Obj([status |-> Str("unknown")])

GeoPairs == Obj([geometry |-> Arr(<<Arr(<<Num(-74), Num(40)>>),
                                    Arr(<<Num(-73), Num(41)>>)>>)])

NotFound == {Response(404, "text/html", "<html>Not Found</html>", Undef),
             Response(404, JsonType, "{\"error\":\"not found\"}",
                      Obj([error |-> Str("not found")]))}
Failures == {Response(500, "text/plain", "boom", Undef),
             Response(200, "text/html", "<html>index</html>", Undef),
             Rejected("Failed to fetch")}
Success(payloads) == {Response(200, JsonType, "{}", p) : p \in payloads}

PosOutcomes == Success({PosPrimary, PosNoCoords}) \cup NotFound \cup Failures
RouteOutcomes == Success({GeoPairs}) \cup NotFound \cup Failures

\* the names under which the backend may send a coordinate, in the order
\* in which the view looks for them
LatNames == <<"CurrentLatitude", "CurrentLat", "latitude", "Latitude">>
LngNames == <<"CurrentLongitude", "CurrentLng", "longitude", "Longitude">>
Coords == (0 - MaxCoord)..MaxCoord
Forms == {"num", "str"}
\* the coordinate v sent as a number or as its decimal text
Form(f, v) == IF f = "num" THEN Num(v) ELSE Str(NumStr(v))

\* a position sent under the i-th pair of names, in form f
PosVariant(i, f, lat, lng) ==
  Obj((LatNames[i] :> Form(f, lat)) @@ (LngNames[i] :> Form(f, lng)))
\* the positions sent: every latitude, with two longitudes each
CoordPairs == {p \in Coords \X Coords : p[2] \in {0 - p[1], MaxCoord}}
VariantPayloads ==
  {PosVariant(i, f, p[1], p[2]) : i \in 1..4, f \in Forms, p \in CoordPairs}

\* a position that carries one coordinate under two names: MaxCoord under
\* the i-th, 0 under the j-th (i before j); the other coordinate is 0
PriorityLat(i, j, f1, f2) ==
  Obj((LatNames[i] :> Form(f1, MaxCoord)) @@ (LatNames[j] :> Form(f2, 0))
      @@ ("CurrentLongitude" :> Num(0)))
PriorityLng(i, j, f1, f2) ==
  Obj((LngNames[i] :> Form(f1, MaxCoord)) @@ (LngNames[j] :> Form(f2, 0))
      @@ ("CurrentLatitude" :> Num(0)))
Priorities == {<<i, j>> \in (1..4) \X (1..4) : i < j}
PriorityPayloads ==
  {PriorityLat(ij[1], ij[2], f1, f2) : ij \in Priorities, f1 \in Forms, f2 \in Forms}
  \cup
  {PriorityLng(ij[1], ij[2], f1, f2) : ij \in Priorities, f1 \in Forms, f2 \in Forms}

\* payloads without a finite latitude and longitude: fields missing, texts
\* that are not numbers, infinite values, and payloads that are no records
InvalidPayloads ==
  {PosNoCoords,
   Obj([CurrentLatitude |-> Num(MaxCoord)]),
   Obj([CurrentLongitude |-> Num(MaxCoord)]),
   Obj([CurrentLatitude |-> Str("north"), CurrentLongitude |-> Num(0)]),
   Obj([CurrentLatitude |-> Num(0), CurrentLongitude |-> Str("")]),
   Obj([CurrentLatitude |-> Str("Infinity"), CurrentLongitude |-> Num(0)]),
   Obj([CurrentLatitude |-> Infinity, CurrentLongitude |-> Num(0)]),
   Obj([latitude |-> Num(0), longitude |-> Infinity]),
   Obj([CurrentLatitude |-> Null, CurrentLongitude |-> Null]),
   Obj([CurrentLatitude |-> Arr(<<Num(0)>>), CurrentLongitude |-> Num(0)]),
   Str("ok"), Num(MaxCoord), Arr(<<Num(0), Num(0)>>)}

PositionPayloads == VariantPayloads \cup PriorityPayloads \cup InvalidPayloads

\* the i-th point of a route, as the backend sends it in either convention
\* and as the view keeps it
LonLatPair(i) == Arr(<<Num(0 - i), Num(i)>>)
LatLngObject(i) == Obj([lat |-> Num(i), lng |-> Num(0 - i)])
LatLon(i) == <<Num(i), Num(0 - i)>>
PairGeometry(n) == Arr([i \in 1..n |-> LonLatPair(i)])
ObjectGeometry(n) == Arr([i \in 1..n |-> LatLngObject(i)])
RouteLens == 0..MaxRouteLen

\* geometries whose first element follows neither convention
NeitherGeometries ==
  {Arr(<<Obj([x |-> Num(1)])>>),
   Arr(<<Obj([lat |-> Str("1"), lng |-> Str("-1")])>>),
   Arr(<<Str("ab")>>),
   Arr(<<Num(1)>>),
   Arr(<<Null>>),
   Arr(<<Obj([x |-> Num(1)]), LonLatPair(1)>>)}
\* geometries that mix the conventions
MixedGeometries ==
  {Arr(<<LonLatPair(1), LatLngObject(2)>>),
   Arr(<<LatLngObject(1), LonLatPair(2)>>),
   Arr(<<LonLatPair(1), Str("ab")>>),
   Arr(<<LatLngObject(1), Obj([x |-> Num(1)])>>)}
Geometries ==
  {PairGeometry(n) : n \in RouteLens} \cup {ObjectGeometry(n) : n \in RouteLens}
  \cup NeitherGeometries \cup MixedGeometries
GeoPayload(g) == Obj([geometry |-> g])
RoutePayloads ==
  {GeoPayload(g) : g \in Geometries}
  \cup {Null, Obj([route |-> PairGeometry(1)]), GeoPayload(Str("LINESTRING")),
        GeoPayload(Obj([type |-> Str("LineString")]))}
\* the answer 200 application/json with payload p
Found(p) == Response(200, JsonType, "{}", p)

\* n copies of the text s
RECURSIVE Repeat(_, _)
Repeat(s, n) ==
  IF n = 0 THEN ""
  ELSE LET half == Repeat(s, n \div 2)
       IN IF n % 2 = 0 THEN half \o half ELSE half \o half \o s
\* the longest message the reader builds around a truncated body
MessageBound == Len("Expected JSON but got: ") + SliceLimit
\* the statuses, content-type headers ("" when absent) and bodies of the
\* answers the reader may be given
Statuses == {200, 201, 404, 500}
ContentTypes == {JsonType, "application/json", "text/html; charset=utf-8", ""}
LongBody == Repeat("x", MessageBound + MaxOverflow)
Bodies == {"", "<html>index</html>", LongBody}
ReaderResponses(json) ==
  {Response(st, ct, text, json) :
     st \in Statuses, ct \in ContentTypes, text \in Bodies}
PosResponses == ReaderResponses(PosPrimary)
RouteResponses ==
  {Response(st, ct, "<html>index</html>", GeoPairs) :
     st \in Statuses, ct \in ContentTypes \ {"application/json"}}
\* the media type of a content-type header, the text before its parameters,
\* is application/json
IsJsonType(ct) ==
  ct = "application/json" \/ StartsWith(ct, "application/json;")

\* the class of a settled fetch
Class(outcome) ==
  IF outcome \in NotFound THEN "notfound"
  ELSE IF outcome \in Failures THEN "failed" ELSE "ok"

(***************************************************************************)
(* State.                                                                  *)
(***************************************************************************)
VARIABLES
  lifecycle,     \* of the component instance: "initial", "mounted", "unmounted"
  shipmentId,    \* the shipmentId prop ("" when empty)
  trackingData, loading, error, simRoute, optRoute,   \* useState values
  sessions,      \* the runs of the effect body: subject and ticks fired
  timers,        \* the interval timers that are active, by session
  intervalId,    \* the intervalId the registered cleanup closes over (0: none)
  inflight,      \* fetches issued and not yet settled
  issued,        \* history: every fetch issued, in order
  writer,        \* history: the session whose fetch last set each state value
  tdCycle,       \* history: the poll cycle of the fetch that last set trackingData
  errCycle,      \* history: the poll cycle of the fetch that last set error
  mapBuilds,     \* history: MapView mounts of the current instance
  cyclesLeft,    \* poll cycles the behaviour may still start
  audit          \* whether the behaviour records writer, tdCycle, errCycle
                 \* and mapBuilds

state == <<trackingData, loading, error, simRoute, optRoute>>
vars == <<lifecycle, shipmentId, trackingData, loading, error, simRoute,
          optRoute, sessions, timers, intervalId, inflight, issued,
          writer, tdCycle, errCycle, mapBuilds, cyclesLeft, audit>>

\* a fetch: the endpoint, the subject in its URL, and the session and poll
\* cycle that issued it
Req(k, s, n, c) == [kind |-> k, subj |-> s, sess |-> n, cycle |-> c]
InitWriter == [trackingData |-> 0, loading |-> 0, error |-> 0,
               simRoute |-> 0, optRoute |-> 0]

\* a further poll cycle may start: the model bounds the cycles of a
\* behaviour and, unless the behaviour is audited, the fetches of earlier
\* cycles that are still unsettled when a cycle starts
MayPoll ==
  /\ cyclesLeft > 0
  /\ audit \/ Cardinality(inflight) <= MaxPending

\* the component instance is mounted
mounted == lifecycle = "mounted"

\* what the user sees
View == IF mounted THEN Render(loading, error, trackingData) ELSE "unmounted"

Start ==
  /\ lifecycle = "initial" /\ shipmentId = ""
  /\ trackingData = Null /\ loading = TRUE /\ error = Null
  /\ simRoute = << >> /\ optRoute = << >>
  /\ sessions = << >> /\ timers = {} /\ intervalId = 0
  /\ inflight = {} /\ issued = << >>
  /\ writer = InitWriter /\ tdCycle = 0 /\ errCycle = 0
  /\ mapBuilds = 0

Init == Start /\ audit = FALSE /\ cyclesLeft = MaxCycles
InitAudit == Start /\ audit = TRUE /\ cyclesLeft = MaxCycles
InitPosition == Start /\ audit = TRUE /\ cyclesLeft = MaxPositionCycles

\* the new value of a history variable that only audited behaviours record
Rec(new, old) == IF audit THEN new ELSE old

(***************************************************************************)
(* The effect of ShipmentMap: cleanup of the previous run, then the body.  *)
(***************************************************************************)
\* the fetches of one poll cycle, in call order
pollCycle_noSimRoute(s, n, c) == <<Req("pos", s, n, c), Req("opt", s, n, c)>>

pollCycle(s, n, c) ==
  <<Req("pos", s, n, c), Req("sim", s, n, c), Req("opt", s, n, c)>>

\* the fetches the effect body issues before it creates the timer
initialFetches(s, n) == pollCycle(s, n, 0)

Range(q) == {q[i] : i \in 1..Len(q)}

\* return () => clearInterval(intervalId)
cleanup_keepsTimer(ts, id) == ts

cleanup(ts, id) == ts \ {id}

\* the effect for subject s, run after the cleanup of the previous run
useEffect(s) ==
  LET n == Len(sessions) + 1
  IN IF s = ""
     THEN /\ timers' = cleanup(timers, intervalId)
          /\ intervalId' = 0
          /\ UNCHANGED <<sessions, inflight, issued, cyclesLeft>>
     ELSE /\ MayPoll
          /\ cyclesLeft' = cyclesLeft - 1
          /\ sessions' = Append(sessions, [subj |-> s, ticks |-> 0])
          /\ inflight' = inflight \cup Range(initialFetches(s, n))
          /\ issued' = issued \o initialFetches(s, n)
          /\ timers' = cleanup(timers, intervalId) \cup {n}
          /\ intervalId' = n

Mount(s) ==
  /\ lifecycle = "initial"
  /\ lifecycle' = "mounted" /\ shipmentId' = s
  /\ trackingData' = Null /\ loading' = TRUE /\ error' = Null
  /\ simRoute' = << >> /\ optRoute' = << >>
  /\ useEffect(s)
  /\ writer' = InitWriter /\ tdCycle' = 0 /\ errCycle' = 0 /\ mapBuilds' = 0
  /\ UNCHANGED audit

ChangeSubject_resetsLoading(s) ==
  /\ mounted /\ s # shipmentId
  /\ shipmentId' = s
  /\ useEffect(s)
  /\ loading' = TRUE
  /\ UNCHANGED <<lifecycle, trackingData, error, simRoute, optRoute, writer,
                 tdCycle, errCycle, mapBuilds, audit>>

ChangeSubject(s) ==
  /\ mounted /\ s # shipmentId
  /\ shipmentId' = s
  /\ useEffect(s)
  /\ UNCHANGED <<lifecycle, state, writer, tdCycle, errCycle, mapBuilds, audit>>

Unmount ==
  /\ mounted
  /\ lifecycle' = "unmounted"
  /\ timers' = cleanup(timers, intervalId)
  /\ intervalId' = 0
  /\ UNCHANGED <<shipmentId, state, sessions, inflight, issued, writer, tdCycle,
                 errCycle, mapBuilds, cyclesLeft, audit>>

\* the setInterval callback of session n
Tick(n) ==
  /\ n \in timers /\ MayPoll
  /\ LET c == sessions[n].ticks + 1
     IN /\ sessions' = [sessions EXCEPT ![n].ticks = c]
        /\ inflight' = inflight \cup Range(pollCycle(sessions[n].subj, n, c))
        /\ issued' = issued \o pollCycle(sessions[n].subj, n, c)
        /\ cyclesLeft' = cyclesLeft - 1
  /\ UNCHANGED <<lifecycle, shipmentId, state, timers, intervalId, writer,
                 tdCycle, errCycle, mapBuilds, audit>>

(***************************************************************************)
(* The three fetch handlers.  Each body maps the useState values st and    *)
(* the result res of its awaits (fetch, then safeJson) to the values after *)
(* its setter calls.                                                       *)
(***************************************************************************)
State == [trackingData |-> trackingData, loading |-> loading, error |-> error,
          simRoute |-> simRoute, optRoute |-> optRoute]

fetchDataBody_clearsData(st, res) ==
  IF ~res.thrown
  THEN [st EXCEPT !.trackingData = res.value, !.loading = FALSE]
  ELSE [st EXCEPT !.error = Str(res.message), !.loading = FALSE,
                  !.trackingData = Null]

fetchDataBody(st, res) ==
  IF ~res.thrown
  THEN [st EXCEPT !.trackingData = res.value, !.loading = FALSE]
  ELSE [st EXCEPT !.error = Str(res.message), !.loading = FALSE]

fetchSimRouteBody_setsError(st, res) ==
  LET route == IF res.thrown THEN res ELSE simRouteOf(res.value)
  IN IF ~route.thrown THEN [st EXCEPT !.simRoute = route.value]
     ELSE [st EXCEPT !.simRoute = << >>, !.error = Str(route.message)]

fetchSimRouteBody(st, res) ==
  LET route == IF res.thrown THEN res ELSE simRouteOf(res.value)
  IN IF ~route.thrown THEN [st EXCEPT !.simRoute = route.value]
     ELSE [st EXCEPT !.simRoute = << >>]

fetchOptRouteBody(st, res) ==
  LET route == IF res.thrown THEN res ELSE optRouteOf(res.value)
  IN IF ~route.thrown THEN [st EXCEPT !.optRoute = route.value]
     ELSE [st EXCEPT !.optRoute = << >>]

\* the setters of an instance that is no longer mounted do nothing
Live(r) == mounted

\* the re-render after a handler of fetch r has produced the values new
Apply(r, new) ==
  IF Live(r)
  THEN /\ trackingData' = new.trackingData
       /\ loading' = new.loading
       /\ error' = new.error
       /\ simRoute' = new.simRoute
       /\ optRoute' = new.optRoute
       /\ mapBuilds' =
            IF Render(loading, error, trackingData) # "map"
               /\ Render(new.loading, new.error, new.trackingData) = "map"
            THEN Rec(mapBuilds + 1, mapBuilds) ELSE mapBuilds
  ELSE UNCHANGED <<state, mapBuilds>>

fetchData_stopsOnError(r, outcome) ==
  /\ r \in inflight /\ r.kind = "pos"
  /\ inflight' = inflight \ {r}
  /\ LET res == fetchJson(outcome, Null)
     IN /\ Apply(r, fetchDataBody(State, res))
        /\ timers' = IF res.thrown THEN cleanup(timers, r.sess) ELSE timers
        /\ IF ~Live(r) THEN UNCHANGED <<writer, tdCycle, errCycle>>
           ELSE IF ~res.thrown
           THEN /\ writer' = Rec([writer EXCEPT !.trackingData = r.sess,
                                                !.loading = r.sess], writer)
                /\ tdCycle' = Rec(r.cycle, tdCycle)
                /\ errCycle' = errCycle
           ELSE /\ writer' = Rec([writer EXCEPT !.error = r.sess,
                                                !.loading = r.sess], writer)
                /\ errCycle' = Rec(r.cycle, errCycle)
                /\ tdCycle' = tdCycle
  /\ UNCHANGED <<lifecycle, shipmentId, sessions, intervalId, issued,
                 cyclesLeft, audit>>

fetchData(r, outcome) ==
  /\ r \in inflight /\ r.kind = "pos"
  /\ inflight' = inflight \ {r}
  /\ LET res == fetchJson(outcome, Null)
     IN /\ Apply(r, fetchDataBody(State, res))
        /\ IF ~Live(r) THEN UNCHANGED <<writer, tdCycle, errCycle>>
           ELSE IF ~res.thrown
           THEN /\ writer' = Rec([writer EXCEPT !.trackingData = r.sess,
                                                !.loading = r.sess], writer)
                /\ tdCycle' = Rec(r.cycle, tdCycle)
                /\ errCycle' = errCycle
           ELSE /\ writer' = Rec([writer EXCEPT !.error = r.sess,
                                                !.loading = r.sess], writer)
                /\ errCycle' = Rec(r.cycle, errCycle)
                /\ tdCycle' = tdCycle
  /\ UNCHANGED <<lifecycle, shipmentId, sessions, timers, intervalId, issued,
                 cyclesLeft, audit>>

fetchSimRoute(r, outcome) ==
  /\ r \in inflight /\ r.kind = "sim"
  /\ inflight' = inflight \ {r}
  /\ Apply(r, fetchSimRouteBody(State, fetchJson(outcome, EmptyGeometry)))
  /\ writer' = IF Live(r) THEN Rec([writer EXCEPT !.simRoute = r.sess], writer)
               ELSE writer
  /\ UNCHANGED <<lifecycle, shipmentId, sessions, timers, intervalId, issued,
                 tdCycle, errCycle, cyclesLeft, audit>>

fetchOptRoute(r, outcome) ==
  /\ r \in inflight /\ r.kind = "opt"
  /\ inflight' = inflight \ {r}
  /\ Apply(r, fetchOptRouteBody(State, fetchJson(outcome, EmptyGeometry)))
  /\ writer' = IF Live(r) THEN Rec([writer EXCEPT !.optRoute = r.sess], writer)
               ELSE writer
  /\ UNCHANGED <<lifecycle, shipmentId, sessions, timers, intervalId, issued,
                 tdCycle, errCycle, cyclesLeft, audit>>

\* the shipmentId values the parent may pass: subject ids are opaque to the
\* view, so "B" is used only once "A" has been tracked
Props == {""} \cup {s \in Subjects : s = "A" \/ \E n \in 1..Len(sessions) : sessions[n].subj = "A"}

Next ==
  \/ \E s \in Props : Mount(s)
  \/ \E s \in Props : ChangeSubject(s)
  \/ Unmount
  \/ \E n \in timers : Tick(n)
  \/ \E r \in inflight, o \in PosOutcomes : fetchData(r, o)
  \/ \E r \in inflight, o \in RouteOutcomes : fetchSimRoute(r, o)
  \/ \E r \in inflight, o \in RouteOutcomes : fetchOptRoute(r, o)

\* a single instance and subject whose routes are never found
NextPosition ==
  \/ \E s \in Props : Mount(s)
  \/ \E n \in timers : Tick(n)
  \/ \E r \in inflight, o \in PosOutcomes : fetchData(r, o)
  \/ \E r \in inflight, o \in NotFound : fetchSimRoute(r, o)
  \/ \E r \in inflight, o \in NotFound : fetchOptRoute(r, o)

\* a single subject whose position answers vary over the accepted and the
\* invalid payloads, and whose routes are never found
InitCoordinates == Start /\ audit = FALSE /\ cyclesLeft = MaxCycles
NextCoordinates ==
  \/ Mount("A")
  \/ \E n \in timers : Tick(n)
  \/ \E r \in inflight, o \in Success(PositionPayloads) : fetchData(r, o)
  \/ \E r \in inflight, o \in NotFound : fetchSimRoute(r, o)
  \/ \E r \in inflight, o \in NotFound : fetchOptRoute(r, o)

\* a single subject whose position is never found and whose route answers
\* vary over the geometries
InitRoutes == Start /\ audit = FALSE /\ cyclesLeft = MaxCycles
NextRoutes ==
  \/ Mount("A")
  \/ \E n \in timers : Tick(n)
  \/ \E r \in inflight, o \in NotFound : fetchData(r, o)
  \/ \E r \in inflight, o \in Success(RoutePayloads) : fetchSimRoute(r, o)
  \/ \E r \in inflight, o \in Success(RoutePayloads) : fetchOptRoute(r, o)

\* a single subject whose answers vary over statuses, content types and
\* bodies
InitReader == Start /\ audit = FALSE /\ cyclesLeft = MaxCycles
NextReader ==
  \/ Mount("A")
  \/ \E n \in timers : Tick(n)
  \/ \E r \in inflight, o \in PosResponses : fetchData(r, o)
  \/ \E r \in inflight, o \in RouteResponses : fetchSimRoute(r, o)
  \/ \E r \in inflight, o \in RouteResponses : fetchOptRoute(r, o)

Spec == Init /\ [][Next]_vars
SpecAudit == InitAudit /\ [][Next]_vars
SpecPosition == InitPosition /\ [][NextPosition]_vars
SpecCoordinates == InitCoordinates /\ [][NextCoordinates]_vars
SpecRoutes == InitRoutes /\ [][NextRoutes]_vars
SpecReader == InitReader /\ [][NextReader]_vars

TypeOK ==
  /\ lifecycle \in {"initial", "mounted", "unmounted"} /\ loading \in BOOLEAN
  /\ shipmentId \in Subjects \cup {""}
  /\ timers \subseteq 1..Len(sessions)
  /\ intervalId \in 0..Len(sessions)

(***************************************************************************)
(* Properties.                                                             *)
(***************************************************************************)
Kinds == {"pos", "sim", "opt"}
\* the fetches that settle in a step
Settling == inflight \ inflight'
\* the timer of the session that issued r has been cleared
Stopped(r) == r.sess \notin timers
\* the requests of poll cycle c of session n
CycleOf(n, c) == Range(pollCycle(sessions[n].subj, n, c))
\* how often request q was issued
TimesIssued(q) == Cardinality({i \in 1..Len(issued) : issued[i] = q})

\* C1: once the cleanup of a session has run, the settlement of a fetch that
\* the session issued before never changes trackingData, loading, error,
\* simRoute or optRoute
C1_NoMutationAfterStop ==
  [][\A r \in Settling : Stopped(r) => UNCHANGED state]_vars

\* the session n that is polling follows a subject change, and its first
\* poll cycle has settled
SwitchedAndSettled(n) ==
  /\ n = intervalId /\ n > 1
  /\ mounted
  /\ sessions[n - 1].subj # sessions[n].subj
  /\ CycleOf(n, 0) \cap inflight = {}
\* the state value v was last set by a response for subject s, or never set
From(v, s) == writer[v] = 0 \/ sessions[writer[v]].subj = s

\* C2: after a switch from subject A to subject B, once the first poll cycle
\* for B has settled every state value set by a response was set by a response
\* for B, and no response for another subject than the tracked one is applied
C2_StateReflectsNewSubject ==
  /\ [](\A n \in 1..Len(sessions) : SwitchedAndSettled(n) =>
          \A v \in DOMAIN writer : From(v, sessions[n].subj))
  /\ [][\A r \in Settling :
          (Len(sessions) > 1 /\ r.subj # shipmentId) => UNCHANGED state]_vars

\* C3: at most one interval timer is active, it is the one the registered
\* cleanup will clear, and none is active after unmount or while the subject
\* id is empty
C3_AtMostOneTimer ==
  /\ Cardinality(timers) <= 1
  /\ timers \subseteq {intervalId}
  /\ (~mounted \/ shipmentId = "") => timers = {}

C3_Witness ==
  /\ Len(sessions) = 2 /\ mounted
  /\ sessions[1].subj # sessions[2].subj
  /\ timers = {2}

\* C4: when a position fetch of an earlier poll cycle of the session has
\* failed and a position fetch of a later tick succeeds with finite
\* coordinates, the view shows the map for that payload
C4_RecoversOnNextTick ==
  [][\A r \in Settling, o \in PosOutcomes :
       ( /\ fetchData(r, o) /\ Live(r)
         /\ Class(o) = "ok" /\ Render(FALSE, Null, o.json) = "map"
         /\ Truthy(error) /\ writer.error = r.sess /\ errCycle < r.cycle )
       => (View' = "map" /\ trackingData' = o.json)]_vars

\* C5: when two successful position responses of one session arrive out of
\* order, the payload of the later-issued request stays in trackingData
C5_MostRecentWins ==
  [][\A r \in Settling, o \in PosOutcomes :
       ( /\ fetchData(r, o) /\ Live(r) /\ Class(o) = "ok"
         /\ Truthy(trackingData)
         /\ writer.trackingData = r.sess /\ tdCycle > r.cycle )
       => trackingData' = trackingData]_vars

\* C6: between mount and unmount the map view is mounted at most once
C6_MapBuiltOnce == mapBuilds <= 1

\* C7: the settlement of the position fetch leaves both routes unchanged, the
\* settlement of a route fetch leaves trackingData, loading, error and the
\* other route unchanged
C7_FetchesIndependent ==
  [][\A r \in Settling :
       /\ r.kind = "pos" => UNCHANGED <<simRoute, optRoute>>
       /\ r.kind = "sim" => UNCHANGED <<trackingData, loading, error, optRoute>>
       /\ r.kind = "opt" => UNCHANGED <<trackingData, loading, error, simRoute>>]_vars

C7_Witness ==
  /\ mounted /\ inflight = {} /\ Len(issued) = 3
  /\ ~loading /\ error = Null /\ Truthy(trackingData)
  /\ simRoute = << >> /\ optRoute # << >>

\* C8: a failed position fetch leaves trackingData as it was, a failed
\* simulated-route or optimized-route fetch leaves that route empty
C8_FailurePolicy ==
  [][\A r \in Settling, o \in Failures :
       /\ fetchData(r, o) => trackingData' = trackingData
       /\ (fetchSimRoute(r, o) /\ Live(r)) => simRoute' = << >>
       /\ (fetchOptRoute(r, o) /\ Live(r)) => optRoute' = << >>]_vars

C8_Witness ==
  /\ mounted /\ Truthy(error) /\ Truthy(trackingData)
  /\ simRoute = << >> /\ Len(issued) = 6 /\ inflight = {}

\* C9: every session has issued, for each poll cycle it has started (the
\* initial one and one per tick), exactly one request per endpoint for its
\* subject, and nothing else, cycle after cycle
C9_FullCyclePerStartAndTick ==
  /\ \A n \in 1..Len(sessions) : \A c \in 0..sessions[n].ticks :
       \A k \in Kinds : TimesIssued(Req(k, sessions[n].subj, n, c)) = 1
  /\ \A i \in 1..Len(issued) :
       /\ issued[i].sess \in 1..Len(sessions)
       /\ issued[i].cycle <= sessions[issued[i].sess].ticks
       /\ issued[i].subj = sessions[issued[i].sess].subj
  /\ \A i, j \in 1..Len(issued) :
       (i < j /\ issued[i].sess = issued[j].sess) =>
         issued[i].cycle <= issued[j].cycle

C9_Witness ==
  \E n \in 1..Len(sessions) : sessions[n].ticks = 1 /\ Len(issued) = 6

\* C10: the settlement of a fetch with a 404 response never changes error; on
\* the position endpoint it leaves trackingData null and loading false, on a
\* route endpoint it leaves that route empty
C10_NotFoundIsNoData ==
  [][\A r \in Settling, o \in NotFound :
       /\ (fetchData(r, o) \/ fetchSimRoute(r, o) \/ fetchOptRoute(r, o))
            => error' = error
       /\ (fetchData(r, o) /\ Live(r)) =>
            (trackingData' = Null /\ loading' = FALSE)
       /\ (fetchSimRoute(r, o) /\ Live(r)) => simRoute' = << >>
       /\ (fetchOptRoute(r, o) /\ Live(r)) => optRoute' = << >>]_vars

C10_Witness ==
  /\ View = "nodata" /\ Len(issued) = 6 /\ inflight = {}
  /\ simRoute = << >> /\ optRoute # << >>

\* C11: a payload that carries latitude lat and longitude lng under any one
\* of the accepted pairs of names, as numbers or as their decimal texts,
\* resolves to the marker position (lat, lng)
C11_VariantsNormalizeAlike ==
  \A i \in 1..4, f \in Forms, p \in CoordPairs :
    trackingData = PosVariant(i, f, p[1], p[2]) =>
      markerPosition(trackingData) = <<Num(p[1]), Num(p[2])>>

C13_RoutesInLatLonOrder ==
  [][\A r \in Settling, n \in RouteLens :
       \A g \in {PairGeometry(n), ObjectGeometry(n)} :
         /\ (fetchSimRoute(r, Found(GeoPayload(g))) /\ Live(r))
              => simRoute' = [i \in 1..n |-> LatLon(i)]
         /\ (fetchOptRoute(r, Found(GeoPayload(g))) /\ Live(r))
              => optRoute' = [i \in 1..n |-> LatLon(i)]]_vars

C13_Witness ==
  /\ mounted /\ inflight = {}
  /\ simRoute = [i \in 1..MaxRouteLen |-> LatLon(i)]
  /\ optRoute = [i \in 1..MaxRouteLen |-> LatLon(i)]

\* C14: for every route payload the value fetchSimRoute stores in simRoute
\* is the value fetchOptRoute stores in optRoute for that payload
C14_SourcesNormalizedAlike ==
  [][\A r \in Settling, o \in Success(RoutePayloads) :
       (fetchSimRoute(r, o) /\ Live(r)) =>
         simRoute' = fetchOptRouteBody(State, fetchJson(o, EmptyGeometry)).optRoute]_vars

\* C15: a geometry whose first element is neither a pair nor an object with
\* a numeric lat is stored as the empty route by either route handler, and
\* error stays as it was
C15_NeitherShapeIsEmptyRoute ==
  [][\A r \in Settling, g \in NeitherGeometries :
       /\ (fetchSimRoute(r, Found(GeoPayload(g))) /\ Live(r))
            => (simRoute' = << >> /\ error' = error)
       /\ (fetchOptRoute(r, Found(GeoPayload(g))) /\ Live(r))
            => (optRoute' = << >> /\ error' = error)]_vars

\* C16: of two fields that carry the same coordinate, the one whose name
\* comes first in the order of names decides the result, for the latitude
\* and for the longitude, whether the values are numbers or decimal texts
C16_FirstCandidateWins ==
  \A ij \in Priorities, f1 \in Forms, f2 \in Forms :
    /\ trackingData = PriorityLat(ij[1], ij[2], f1, f2)
         => CurrentLatitude(trackingData) = Num(MaxCoord)
    /\ trackingData = PriorityLng(ij[1], ij[2], f1, f2)
         => CurrentLongitude(trackingData) = Num(MaxCoord)

\* C17: when the position endpoint answers with a status that is neither a
\* success nor 404, the message stored in error holds the body cut to the
\* reader's limit and is never longer than the reader's longest message
C17_ErrorMessageBounded ==
  [][\A r \in Settling, o \in PosResponses :
       (fetchData(r, o) /\ Live(r) /\ ~Ok(o) /\ o.status # 404) =>
         /\ error'.t = "string"
         /\ Includes(error'.s, Slice0(o.text, SliceLimit))
         /\ Len(error'.s) <= MessageBound]_vars

\* C18: an answer with a success status whose content type is not JSON sets
\* error and leaves trackingData as it was on the position endpoint and
\* leaves the route empty on a route endpoint; trackingData takes the parsed
\* value exactly when the status is a success and the content type is JSON
C18_NonJsonSuccessIsError ==
  [][\A r \in Settling :
       /\ r.kind = "pos" =>
            \A o \in PosResponses :
              (fetchData(r, o) /\ Live(r)) =>
                /\ (Ok(o) /\ ~IsJsonType(o.ct)) =>
                     (Truthy(error') /\ trackingData' = trackingData)
                /\ (Ok(o) /\ IsJsonType(o.ct)) =>
                     (trackingData' = o.json /\ error' = error)
                /\ ~Ok(o) =>
                     trackingData' = (IF o.status = 404 THEN Null ELSE trackingData)
       /\ r.kind # "pos" =>
            \A o \in RouteResponses :
              (Ok(o) /\ ~IsJsonType(o.ct)) =>
                /\ (fetchSimRoute(r, o) /\ Live(r)) => simRoute' = << >>
                /\ (fetchOptRoute(r, o) /\ Live(r)) => optRoute' = << >>]_vars

C18_Witness ==
  /\ mounted /\ inflight = {} /\ Len(issued) = 6
  /\ trackingData = PosPrimary /\ simRoute = << >> /\ optRoute # << >>
  /\ error = Str("Expected JSON but got: <html>index</html>")

\* C19: the settlement of a fetch, whatever its outcome, leaves the timers
\* and the registered intervalId as they were; the timers change only in a
\* step that mounts, changes the subject or unmounts; and a mounted view
\* with a subject has exactly the timer of its latest session
C19_TimerOnlyStartStop ==
  /\ []((mounted /\ shipmentId # "") =>
          (timers = {intervalId} /\ intervalId = Len(sessions)))
  /\ [][/\ \A r \in Settling : UNCHANGED <<timers, intervalId>>
        /\ timers' # timers =>
             (lifecycle' # lifecycle \/ shipmentId' # shipmentId)]_vars

C19_Witness ==
  /\ mounted /\ Len(sessions) = 1 /\ sessions[1].ticks = 1
  /\ Truthy(error) /\ timers = {1}
  /\ inflight = CycleOf(1, 1)

\* C20: loading is true until the view is mounted, only the settlement of a
\* position fetch of the mounted view makes it false and every such
\* settlement does, a route settlement leaves it as it is, and once false it
\* stays false in every step
C20_LoadingMonotone ==
  /\ [](lifecycle = "initial" => loading)
  /\ [][/\ ~loading => ~loading'
        /\ \A r \in Settling :
             /\ r.kind # "pos" => loading' = loading
             /\ (r.kind = "pos" /\ Live(r)) => ~loading'
        /\ (loading /\ ~loading') =>
             \E r \in Settling : r.kind = "pos" /\ Live(r)]_vars

C20_Witness ==
  /\ mounted /\ ~loading /\ Len(sessions) = 2
  /\ sessions[1].subj # sessions[2].subj
  /\ CycleOf(2, 0) \subseteq inflight

=============================================================================
